---------------------------- MODULE Spec2Model ----------------------------
(***************************************************************************)
(* A model of the AI resume tailor.                                        *)
(*                                                                         *)
(*  - Spec: the Streamlit session of app.py.  Every user interaction       *)
(*    reruns the script; a button handler that calls the AI runs the       *)
(*    failover orchestrator, whose loop over the providers is modelled     *)
(*    one provider call at a time (pc = "call"), the handler finishing in  *)
(*    the matching ...Return action.                                       *)
(*  - SpecTailor: one run of ai_agent.tailor_resume, line by line and      *)
(*    section by section, over every CV of Documents.                      *)
(*                                                                         *)
(* Texts are sequences of word tokens, so that "begins with" and           *)
(* "contains" are different tests.  A Python dict is a function whose      *)
(* DOMAIN is the set of its keys.                                          *)
(***************************************************************************)
EXTENDS Integers, Sequences, FiniteSets, TLC

VARIABLES
    session_state,   \* st.session_state: key -> value, for the keys present
    heap,            \* the dict objects the session's slots refer to
    edits,           \* user edits made since the last generation (bounded)
    pc,              \* "idle" | "call" (in the provider loop) | "ret"
    purpose,         \* which generation function is running dispatch
    start_index,     \* dispatch's start_index argument
    calls,           \* providers attempted by the running dispatch, in order
    response,        \* what dispatch returns (set when pc = "ret")
    resume_content,  \* the cheatsheet handler's local resume_content
    reset_from,      \* history: the keys the session held when the last step
                     \* was "Start New Application" ({} after any other step)
    since_press,     \* history: "none" | "generated" | "finalized", how far the
                     \* workflow got since the last press of Generate or reset
    since_run,       \* history: the same, since the last press of Generate that
                     \* ran its handler body (60) or reset
    \* ai_agent.tailor_resume: its locals
    tpc,                     \* "off" | "segment" | "tailor" | "done" | "raised"
    lines,                   \* cv_text.split('\n')
    line_no,                 \* lines consumed by the loop of 117-135
    extracted_sections_raw,
    section_order,
    current_section_name,
    section_content_buffer,
    tailored_parts,
    order_pos,               \* entries of section_order consumed by 144-153
    provider_calls,          \* section names handed to model.generate_content
    section_calls,           \* history: the tailor_section calls of the run
    last_call,               \* the last direct call of a function and its outcome
    \* history: where content came from, and whether tailoring changed any
    buffer_from,             \* the line numbers of section_content_buffer
    raw_from,                \* the line numbers of each extracted content
    all_unchanged            \* every tailor_section call so far returned its input

appVars == <<session_state, heap, edits, pc, purpose, start_index, calls,
             response, resume_content, reset_from, since_press, since_run>>

tailorVars == <<tpc, lines, line_no, extracted_sections_raw, section_order,
                current_section_name, section_content_buffer, tailored_parts,
                order_pos, provider_calls, section_calls, last_call,
                buffer_from, raw_from, all_unchanged>>

vars == <<appVars, tailorVars>>

-----------------------------------------------------------------------------
(* Bounds *)

MaxEdits == 1

MaxLines == 4

MaxCallLines == 2

MaxMarkdownLines == 4

-----------------------------------------------------------------------------
(* config.py: StaticResumeFacts *)

RELEVANT_EXPERIENCE_STATIC ==
    <<"Conduent", "Itech Data Consulting", "Mangrove & Partners Ltd">>

StaticEmployers == {RELEVANT_EXPERIENCE_STATIC[i] : i \in 1..Len(RELEVANT_EXPERIENCE_STATIC)}

EDUCATION == <<"University of North Texas", "Covenant University">>

-----------------------------------------------------------------------------
(* Python dict helpers *)

DictSet(d, k, v) == [x \in (DOMAIN d) \cup {k} |-> IF x = k THEN v ELSE d[x]]

DictDel(d, ks) == [x \in (DOMAIN d) \ ks |-> d[x]]

DictGet(d, k, default) == IF k \in DOMAIN d THEN d[k] ELSE default

EmptyDict == [x \in {} |-> 0]

-----------------------------------------------------------------------------
(* Texts *)

ErrorMarker == "Error:"

ContainsError(text) == \E i \in 1..Len(text) : text[i] = ErrorMarker

StartsWithError(text) == Len(text) > 0 /\ text[1] = ErrorMarker


-----------------------------------------------------------------------------
(* Failover orchestrator (spec 4.2): dispatch(prompt, json_mode, start_index) *)

NumProviders == 5

ProviderRegistry == <<"groq", "gemini", "cohere", "fireworks", "huggingface">>

\* Mutant of CallOrder: the registry order, whatever the start index.
CallOrderUnrotated(start) == ProviderRegistry

\* The registry rotated so that the provider at start is first (wraparound).
CallOrder(start) ==
    [i \in 1..Len(ProviderRegistry) |->
        ProviderRegistry[((start + i - 1) % Len(ProviderRegistry)) + 1]]

\* Mutant of ResponseAccepted: any returned text is accepted.
ResponseAcceptedUnlessRaised(outcome) == ~outcome.raised

\* A provider's call either raises or returns a text; a returned text is
\* rejected when it contains the marker "Error:".
ResponseAccepted(outcome) == ~outcome.raised /\ ~ContainsError(outcome.text)

AllProvidersFailedText == <<"Error:", "All", "AI", "providers", "failed.">>

-----------------------------------------------------------------------------
(* What the hosted models may answer *)

Entry(role, bullets) == [role |-> role, bullets |-> bullets]

GoodSkills == [technical |-> "SQL, Python", soft |-> "Teamwork"]

\* The decoded value of each JSON object a provider may embed in its answer.
\* "{as_prompted}" has the four bullets of the template of prompts.py 77-103;
\* "{partial}" lacks an employer, invents one and carries a blank bullet.
JsonDecode ==
    "{good}" :> [skills |-> GoodSkills,
                 experience |-> [c \in StaticEmployers |->
                                    Entry("Data Analyst", <<"b1", "b2", "b3">>)]]
    @@ "{as_prompted}" :> [skills |-> GoodSkills,
                 experience |-> [c \in StaticEmployers |->
                                    Entry("Data Analyst", <<"b1", "b2", "b3", "b4">>)]]
    @@ "{partial}" :> [skills |-> GoodSkills,
                 experience |->
                    ("Conduent" :> Entry("BI Analyst", <<"b1", "   ", "b3">>)
                     @@ "Acme Corp" :> Entry("Consultant", <<"b1", "b2", "b3">>)
                     @@ "Mangrove & Partners Ltd" :> [bullets |-> <<"b1", "b2", "b3">>])]
    @@ "{errored}" :> [skills |-> GoodSkills,
                 experience |-> [c \in StaticEmployers |->
                                    Entry("Data Analyst", <<"b1", "b2", "b3">>)],
                 error |-> "model refused"]
    @@ "{no_experience}" :> [skills |-> GoodSkills]

\* Tokens that hold a "{" ... "}" slice; "{broken}" does not decode.
JsonTokens == (DOMAIN JsonDecode) \cup {"{broken}"}

ErrorBodyText == <<"upstream", "Error:", "quota", "exceeded">>

ProviderTexts(p) ==
    CASE p = "title"        -> {<<"Data", "Analyst">>, ErrorBodyText}
      [] p = "resume"       -> {<<"Here", "is", "the", "JSON", tok>> : tok \in JsonTokens}
                               \cup {<<"Sorry,", "no", "JSON">>, ErrorBodyText}
      [] p = "cover_letter" -> {<<"Dear", "Hiring", "Manager">>, ErrorBodyText}
      [] p = "cheatsheet"   -> {<<"##", "Cheatsheet">>, ErrorBodyText}

ProviderOutcomes(p) ==
    {[raised |-> TRUE, text |-> <<>>]}
    \cup {[raised |-> FALSE, text |-> t] : t \in ProviderTexts(p)}

-----------------------------------------------------------------------------
(* Response parser (spec 4.4) and the generation functions app.py imports *)

RequiredTopLevelKeys == {"skills", "experience"}

\* JSON extraction: the slice from the first "{" to the last "}", decoded;
\* no result (the empty set) when there is no "{", when the slice does not
\* decode or when a required top-level key is absent.
ExtractJson(text) ==
    LET at == {i \in 1..Len(text) : text[i] \in JsonTokens}
    IN  IF at = {} THEN {}
        ELSE LET first == CHOOSE i \in at : \A j \in at : i <= j
                 last  == CHOOSE i \in at : \A j \in at : j <= i
             IN  IF first # last \/ text[first] \notin DOMAIN JsonDecode THEN {}
                 ELSE IF ~(RequiredTopLevelKeys \subseteq DOMAIN JsonDecode[text[first]])
                      THEN {}
                      ELSE {JsonDecode[text[first]]}

\* generate_tailored_resume_data: the decoded object, or a typed error payload.
GenerateTailoredResumeData(raw) ==
    IF StartsWithError(raw) THEN [error |-> "All AI providers failed."]
    ELSE LET parsed == ExtractJson(raw)
         IN  IF parsed = {} THEN [error |-> "Failed to parse AI response."]
             ELSE CHOOSE d \in parsed : TRUE

\* extract_job_title, generate_cover_letter, generate_cheatsheet hand back
\* what dispatch returned.
ExtractJobTitle(raw) == raw

GenerateCoverLetter(raw) == raw

GenerateCheatsheet(raw) == raw

\* The start index each generation function passes to dispatch: app.py gives
\* extract_job_title none (the default), the others the session's index.
DefaultStartIndex == 0

-----------------------------------------------------------------------------
(* app.py: the session's slots *)

InputKeys == {"job_title_input", "company_name_input", "job_description_input"}

\* A Generate handler that leaves the finalized flag in place.
DerivedKeysKeepingFinalized ==
    {"generated_data", "editable_sections", "final_resume_data", "cover_letter",
     "cheatsheet", "official_job_title"}

\* A Generate handler whose key list lacks 'cover_letter' and 'cheatsheet'.
DerivedKeysKeepingDocuments ==
    {"generated_data", "editable_sections", "finalized", "final_resume_data",
     "official_job_title"}

\* The keys the Generate handler deletes (app.py 62).
DerivedKeys == {"generated_data", "editable_sections", "finalized",
                "final_resume_data", "cover_letter", "cheatsheet",
                "official_job_title"}

DataKeys == {"generated_data", "editable_sections", "final_resume_data"}

\* What the user may type into the three inputs of step 1.
UserInputs ==
    [job_title_input       |-> {"", "BI analyst"},
     company_name_input    |-> {"", "Acme"},
     job_description_input |-> {"", "We need SQL and Python"}]

\* The top of the script (45-57) when the user has changed no input: each
\* input widget returns the value handed to it, st.session_state.get(key, ''),
\* and provider_index is initialised if it is missing.
RunScriptTop(ss) ==
    LET withInputs == [k \in (DOMAIN ss) \cup InputKeys |->
                          IF k \in InputKeys THEN DictGet(ss, k, "") ELSE ss[k]]
    IN  IF "provider_index" \in DOMAIN withInputs
        THEN withInputs
        ELSE DictSet(withInputs, "provider_index", 0)

\* The session after the first script run.
FreshSession == RunScriptTop(EmptyDict)

\* Mutant of KeysDeletedByReset: the key list of the Generate handler.
KeysDeletedLikeGenerate(ss) == DerivedKeys

\* for key in list(st.session_state.keys()) (192)
KeysDeletedByReset(ss) == DOMAIN ss

Has(key) == key \in DOMAIN session_state

\* st.session_state.get('finalized', False)
Finalized == DictGet(session_state, "finalized", FALSE)

\* The one dict a generation run returns; generated_data, editable_sections
\* (80) and final_resume_data (137) are bound to this same object.
ObjAddr == "generated_data#1"

\* Mutant of NextProviderIndex: the cycle of four providers.
NextProviderIndexCycleOfFour(i) == (i + 1) % 4

\* (st.session_state.provider_index + 1) % 5 (82)
NextProviderIndex(i) == (i + 1) % NumProviders

\* A handler that leaves start_provider_index at the functions' default.
StartProviderIndexOmitted(ss) == DefaultStartIndex

\* start_provider_index=st.session_state.provider_index (75, 153, 162)
StartProviderIndexArg(ss) == ss["provider_index"]

\* Mutant of GenerationSucceeded: the error marker is not looked at.
GenerationNonEmpty(generated_data) == DOMAIN generated_data # {}

\* app.py 78: if generated_data and not generated_data.get("error")
GenerationSucceeded(generated_data) ==
    /\ DOMAIN generated_data # {}
    /\ DictGet(generated_data, "error", "") = ""

-----------------------------------------------------------------------------
(* app.py 88-129: the review step, run by every script run that finds
   editable_sections.  Each widget returns the value handed to it unless the
   user has changed that widget (edit). *)

NoEdit == [widget |-> "none", company |-> "", value |-> ""]

StripLine(line) == IF line = "   " THEN "" ELSE line

\* [line.strip() for line in edited_bullets_string.split('\n') if line.strip()]
ParseBullets(edited) ==
    SelectSeq([i \in 1..Len(edited) |-> StripLine(edited[i])], LAMBDA l : l # "")

\* Mutant of ExperienceEditorCompanies: the keys of the generated mapping.
ExperienceKeysAsGenerated(experience) ==
    CHOOSE seq \in [1..Cardinality(DOMAIN experience) -> DOMAIN experience] :
        \A i, j \in DOMAIN seq : i # j => seq[i] # seq[j]

\* Companies whose editors are drawn (110-111).
ExperienceEditorCompanies(experience) ==
    SelectSeq(RELEVANT_EXPERIENCE_STATIC, LAMBDA company : company \in DOMAIN experience)

SeqToSet(seq) == {seq[i] : i \in 1..Len(seq)}

EditedDetails(details, company, disable_fields, edit) ==
    LET role == IF edit.widget = "role" /\ edit.company = company
                THEN edit.value ELSE DictGet(details, "role", "Error")
        text == IF edit.widget = "bullets" /\ edit.company = company
                THEN edit.value ELSE DictGet(details, "bullets", <<>>)
        withRole == DictSet(details, "role", role)
    IN  IF disable_fields THEN withRole
        ELSE DictSet(withRole, "bullets", ParseBullets(text))

\* The skills editors (95-107).
EditedSkills(skills, edit) ==
    [k \in DOMAIN skills |-> IF edit.widget = k THEN edit.value ELSE skills[k]]

\* The experience editors (109-129).
EditedExperience(experience, disable_fields, edit) ==
    LET shown == SeqToSet(ExperienceEditorCompanies(experience))
    IN  [c \in DOMAIN experience |->
            IF c \in shown
            THEN EditedDetails(experience[c], c, disable_fields, edit)
            ELSE experience[c]]

\* The dict after the review step.  A missing 'skills' or 'experience' key
\* is a KeyError (96, 111) that ends the script run where it is raised.
RenderEditors(data, disable_fields, edit) ==
    IF "skills" \notin DOMAIN data THEN data
    ELSE LET withSkills == DictSet(data, "skills", EditedSkills(data["skills"], edit))
         IN  IF "experience" \notin DOMAIN data THEN withSkills
             ELSE DictSet(withSkills, "experience",
                          EditedExperience(data["experience"], disable_fields, edit))

\* Review fields that stay editable after Finalize.
FieldsNeverDisabled(ss) == FALSE

\* disable_fields = st.session_state.get('finalized', False) (93)
FieldsDisabled(ss) == DictGet(ss, "finalized", FALSE)

\* The heap after the review step of one script run over session ss.
EditorsPass(ss, hp, edit) ==
    IF "editable_sections" \in DOMAIN ss
    THEN [a \in DOMAIN hp |->
            IF a = ss["editable_sections"]
            THEN RenderEditors(hp[a], FieldsDisabled(ss), edit)
            ELSE hp[a]]
    ELSE hp

-----------------------------------------------------------------------------
(* app.py 23-40: assemble_content_string, as the sequence of its parts *)

CompanyPart(company, details) ==
    [kind |-> "company", company |-> company,
     role |-> DictGet(details, "role", "Error"),
     bullets |-> DictGet(details, "bullets", <<>>)]

AssembledCompanies(final_resume_data) ==
    SelectSeq(RELEVANT_EXPERIENCE_STATIC,
              LAMBDA company : company \in DOMAIN DictGet(final_resume_data, "experience", EmptyDict))

assemble_content_string(final_resume_data) ==
    LET companies == AssembledCompanies(final_resume_data)
        skills == DictGet(final_resume_data, "skills", EmptyDict)
    IN  <<[kind |-> "contact"], [kind |-> "heading", text |-> "EDUCATION"]>>
        \o [i \in 1..Len(EDUCATION) |-> [kind |-> "education", institution |-> EDUCATION[i]]]
        \o <<[kind |-> "heading", text |-> "RELEVANT EXPERIENCE"]>>
        \o [i \in 1..Len(companies) |->
               CompanyPart(companies[i], final_resume_data.experience[companies[i]])]
        \o <<[kind |-> "skills",
              technical |-> DictGet(skills, "technical", ""),
              soft |-> DictGet(skills, "soft", "")]>>

-----------------------------------------------------------------------------
(* The session's state machine *)

SessionInit ==
    /\ session_state = FreshSession
    /\ heap = EmptyDict
    /\ edits = 0
    /\ pc = "idle"
    /\ purpose = "none"
    /\ start_index = 0
    /\ calls = <<>>
    /\ response = <<>>
    /\ resume_content = <<>>
    /\ reset_from = {}
    /\ since_press = "none"
    /\ since_run = "none"

\* The step is no press of Generate, Finalize or reset and stores no resume.
SameWorkflow == UNCHANGED <<since_press, since_run>>

\* The workflow after a press of Finalize.
AfterFinalize(stage) == IF stage = "generated" THEN "finalized" ELSE stage

NoDispatch == UNCHANGED <<pc, purpose, start_index, calls, response>>

\* A generation function enters dispatch.
StartDispatch(what, start) ==
    /\ pc' = "call"
    /\ purpose' = what
    /\ start_index' = start
    /\ calls' = <<>>
    /\ response' = <<>>

\* The handler that called dispatch has finished: the script run ends.
EndDispatch ==
    /\ pc' = "idle"
    /\ purpose' = "none"
    /\ start_index' = 0
    /\ calls' = <<>>
    /\ response' = <<>>

\* One iteration of dispatch's loop: the next provider of the call order is
\* invoked; an accepted response is returned at once, a raise or a text
\* containing "Error:" moves on to the next provider.
ProviderAttempt ==
    /\ pc = "call"
    /\ Len(calls) < Len(ProviderRegistry)
    /\ \E outcome \in ProviderOutcomes(purpose) :
          LET provider == CallOrder(start_index)[Len(calls) + 1]
              accepted == ResponseAccepted(outcome)
          IN  /\ calls' = Append(calls, [provider |-> provider, accepted |-> accepted])
              /\ IF accepted
                 THEN pc' = "ret" /\ response' = outcome.text
                 ELSE pc' = "call" /\ response' = response
    /\ UNCHANGED <<session_state, heap, edits, purpose, start_index, resume_content>>
    /\ SameWorkflow

\* Every provider is exhausted: dispatch returns the sentinel.
AllProvidersFailed ==
    /\ pc = "call"
    /\ Len(calls) = Len(ProviderRegistry)
    /\ pc' = "ret"
    /\ response' = AllProvidersFailedText
    /\ UNCHANGED <<session_state, heap, edits, purpose, start_index, calls, resume_content>>
    /\ SameWorkflow

\* A step-1 input is changed (45-53); the script reruns.
EditJobInput ==
    /\ pc = "idle"
    /\ \E key \in InputKeys : \E value \in UserInputs[key] :
          /\ value # session_state[key]
          /\ session_state' = DictSet(session_state, key, value)
          /\ heap' = EditorsPass(session_state', heap, NoEdit)
    /\ UNCHANGED <<edits, resume_content>>
    /\ SameWorkflow
    /\ NoDispatch

\* A Generate handler whose body runs on every press.
EveryPressRuns(ss) == TRUE

\* if st.session_state.job_description_input: (60)
JobDescriptionGiven(ss) == ss["job_description_input"] # ""

\* "Generate Resume Content" (59-76): with a job description the derived
\* slots are deleted and extract_job_title is called; without one the run
\* only redraws the page.
ClickGenerate ==
    /\ pc = "idle"
    /\ IF JobDescriptionGiven(session_state)
       THEN /\ session_state' = DictDel(session_state, DerivedKeys)
            /\ heap' = EmptyDict
            /\ edits' = 0
            /\ StartDispatch("title", DefaultStartIndex)
            /\ since_run' = "none"
       ELSE /\ heap' = EditorsPass(session_state, heap, NoEdit)
            /\ UNCHANGED <<session_state, edits, since_run>>
            /\ NoDispatch
    /\ since_press' = "none"
    /\ UNCHANGED resume_content

\* extract_job_title returns (67-70); generate_tailored_resume_data is called
\* with the session's provider_index (72-76).
TitleReturn ==
    /\ pc = "ret" /\ purpose = "title"
    /\ session_state' = DictSet(session_state, "official_job_title", ExtractJobTitle(response))
    /\ StartDispatch("resume", StartProviderIndexArg(session_state'))
    /\ UNCHANGED <<heap, edits, resume_content>>
    /\ SameWorkflow

\* generate_tailored_resume_data returns (78-86), and the same script run
\* goes on to draw the review step (88-129) over what was stored.
ResumeReturn ==
    /\ pc = "ret" /\ purpose = "resume"
    /\ LET generated_data == GenerateTailoredResumeData(response)
       IN  IF GenerationSucceeded(generated_data)
           THEN LET ss1 == DictSet(session_state, "generated_data", ObjAddr)
                    ss2 == DictSet(ss1, "editable_sections", ObjAddr)
                    ss3 == DictSet(ss2, "provider_index",
                                   NextProviderIndex(session_state["provider_index"]))
                IN  /\ session_state' = ss3
                    /\ heap' = EditorsPass(ss3, ObjAddr :> generated_data, NoEdit)
                    /\ since_press' = "generated"
                    /\ since_run' = "generated"
           ELSE UNCHANGED <<session_state, heap, since_press, since_run>>
    /\ EndDispatch
    /\ UNCHANGED <<edits, resume_content>>

\* The changes the user may make in the review step.
EditChoices ==
    {[widget |-> w, company |-> "", value |-> "Excel, Tableau"] : w \in {"technical", "soft"}}
    \cup {[widget |-> "role", company |-> c, value |-> "Lead Analyst"] :
             c \in {"Conduent", "Mangrove & Partners Ltd"}}
    \cup {[widget |-> "bullets", company |-> "Conduent", value |-> v] :
             v \in {<<"x1">>, <<"x1", "", "x2", "x3">>}}

\* The user changes one widget of the review step (95-129); fields are
\* disabled once the resume is finalized.
EditSection ==
    /\ pc = "idle"
    /\ Has("editable_sections")
    /\ ~FieldsDisabled(session_state)
    /\ edits < MaxEdits
    /\ \E edit \in EditChoices :
          /\ edit.widget \in {"role", "bullets"} =>
                edit.company \in DOMAIN DictGet(heap[session_state["editable_sections"]],
                                                "experience", EmptyDict)
          /\ heap' = EditorsPass(session_state, heap, edit)
    /\ edits' = edits + 1
    /\ UNCHANGED <<session_state, resume_content>>
    /\ SameWorkflow
    /\ NoDispatch

\* "Finalize Resume & Prepare Downloads" (134-139): the run draws the review
\* step, sets the slots and reruns, now with the fields disabled.
ClickFinalize ==
    /\ pc = "idle"
    /\ Has("editable_sections")
    /\ ~Finalized
    /\ LET hp1 == EditorsPass(session_state, heap, NoEdit)
           ss1 == DictSet(session_state, "finalized", TRUE)
           ss2 == DictSet(ss1, "final_resume_data", session_state["editable_sections"])
       IN  /\ session_state' = ss2
           /\ heap' = EditorsPass(ss2, hp1, NoEdit)
    /\ since_press' = AfterFinalize(since_press)
    /\ since_run' = AfterFinalize(since_run)
    /\ UNCHANGED <<edits, resume_content>>
    /\ NoDispatch

\* The block of 141-188 is drawn.
DocumentsShown == Finalized /\ Has("official_job_title")

\* "Generate Cover Letter" (146-154).
ClickCoverLetter ==
    /\ pc = "idle"
    /\ DocumentsShown
    /\ heap' = EditorsPass(session_state, heap, NoEdit)
    /\ StartDispatch("cover_letter", StartProviderIndexArg(session_state))
    /\ UNCHANGED <<session_state, edits, resume_content>>
    /\ SameWorkflow

CoverLetterReturn ==
    /\ pc = "ret" /\ purpose = "cover_letter"
    /\ session_state' = DictSet(session_state, "cover_letter", GenerateCoverLetter(response))
    /\ EndDispatch
    /\ UNCHANGED <<heap, edits, resume_content>>
    /\ SameWorkflow

\* "Generate Interview Cheatsheet" (155-163).
ClickCheatsheet ==
    /\ pc = "idle"
    /\ DocumentsShown
    /\ heap' = EditorsPass(session_state, heap, NoEdit)
    /\ resume_content' = assemble_content_string(heap'[session_state["final_resume_data"]])
    /\ StartDispatch("cheatsheet", StartProviderIndexArg(session_state))
    /\ UNCHANGED <<session_state, edits>>
    /\ SameWorkflow

CheatsheetReturn ==
    /\ pc = "ret" /\ purpose = "cheatsheet"
    /\ session_state' = DictSet(session_state, "cheatsheet", GenerateCheatsheet(response))
    /\ resume_content' = <<>>
    /\ EndDispatch
    /\ UNCHANGED <<heap, edits>>
    /\ SameWorkflow

\* "Start New Application" (190-194): every key is deleted and the script
\* reruns on the empty session.
ClickReset ==
    /\ pc = "idle"
    /\ session_state' = RunScriptTop(DictDel(session_state, KeysDeletedByReset(session_state)))
    /\ heap' = [a \in {session_state'[k] : k \in DataKeys \cap DOMAIN session_state'} |-> heap[a]]
    /\ edits' = IF DataKeys \cap DOMAIN session_state' = {} THEN 0 ELSE edits
    /\ reset_from' = DOMAIN session_state
    /\ since_press' = "none"
    /\ since_run' = "none"
    /\ UNCHANGED resume_content
    /\ NoDispatch

-----------------------------------------------------------------------------
(* ai_agent.py: texts of the CV.  A text is a sequence of lines and a line a
   sequence of words; a blank line has no words. *)

\* re.IGNORECASE, on the words the documents below use.
Lower(word) ==
    CASE word = "SUMMARY" -> "summary"
      [] word = "Professional" -> "professional"
      [] word = "Experience" -> "experience"
      [] word = "Experienced" -> "experienced"
      [] word = "Education" -> "education"
      [] OTHER -> word

\* word begins with prefix, character by character: the patterns are anchored
\* at the start only, so "experience" also matches "experienced".
WordStartsWith(word, prefix) ==
    \/ word = prefix
    \/ <<word, prefix>> \in {<<"experienced", "experience">>,
                             <<"summary:", "summary">>,
                             <<"skillset", "skills">>}

\* section_patterns (93-105), in the dict's order.
section_patterns ==
    << [key |-> "PROFESSIONAL_SUMMARY",
        alts |-> {<<"professional", "summary">>, <<"summary">>, <<"profile">>, <<"about", "me">>}],
       [key |-> "PROFESSIONAL_EXPERIENCE",
        alts |-> {<<"professional", "experience">>, <<"experience">>, <<"work", "experience">>}],
       [key |-> "CORE_SKILLS",
        alts |-> {<<"core", "skills">>, <<"skills">>, <<"technical", "skills">>,
                  <<"key", "skills">>, <<"core", "competencies">>}],
       [key |-> "KEY_ACHIEVEMENTS",
        alts |-> {<<"key", "achievements">>, <<"achievements">>, <<"career", "highlights">>}],
       [key |-> "EDUCATION",
        alts |-> {<<"education">>, <<"academic", "background">>}],
       [key |-> "PROJECTS",
        alts |-> {<<"projects">>, <<"portfolio">>, <<"personal", "projects">>}],
       [key |-> "AWARDS_AND_HONORS",
        alts |-> {<<"awards", "&", "honors">>, <<"awards">>, <<"honors">>}],
       [key |-> "CERTIFICATIONS",
        alts |-> {<<"certifications">>, <<"licenses">>}],
       [key |-> "VOLUNTEER_EXPERIENCE",
        alts |-> {<<"volunteer", "experience">>, <<"volunteering">>}],
       [key |-> "LANGUAGES", alts |-> {<<"languages">>}],
       [key |-> "INTERESTS", alts |-> {<<"interests">>, <<"hobbies">>}] >>

\* An allow-list that also holds EDUCATION.
SectionsToTailorWithEducation ==
    {"PROFESSIONAL_SUMMARY", "KEY_ACHIEVEMENTS", "CORE_SKILLS", "PROFESSIONAL_EXPERIENCE",
     "EDUCATION"}

SECTIONS_TO_TAILOR ==
    {"PROFESSIONAL_SUMMARY", "KEY_ACHIEVEMENTS", "CORE_SKILLS", "PROFESSIONAL_EXPERIENCE"}

\* re.search(pattern, line.strip(), re.IGNORECASE) for one alternative.
AltMatches(alt, line) ==
    /\ Len(alt) <= Len(line)
    /\ \A i \in 1..(Len(alt) - 1) : Lower(line[i]) = alt[i]
    /\ WordStartsWith(Lower(line[Len(alt)]), alt[Len(alt)])

PatternMatches(pattern, line) == \E alt \in pattern.alts : AltMatches(alt, line)

\* The inner loop of 119-133: the positions of the patterns that match.
MatchingPatterns(line) ==
    {i \in 1..Len(section_patterns) : PatternMatches(section_patterns[i], line)}

IsHeading(line) == MatchingPatterns(line) # {}

\* The key of the first pattern that matches (break at 133).
MatchedKey(line) ==
    LET matching == MatchingPatterns(line)
    IN  section_patterns[CHOOSE i \in matching : \A j \in matching : i <= j].key

\* "\n".join(buffer).strip(): the lines from the first to the last non-blank.
StripFirst(text) ==
    IF \E i \in 1..Len(text) : text[i] # <<>>
    THEN CHOOSE i \in 1..Len(text) : text[i] # <<>> /\ \A j \in 1..(i - 1) : text[j] = <<>>
    ELSE 1

StripLast(text) ==
    IF \E i \in 1..Len(text) : text[i] # <<>>
    THEN CHOOSE i \in 1..Len(text) : text[i] # <<>> /\ \A j \in (i + 1)..Len(text) : text[j] = <<>>
    ELSE 0

Strip(text) == SubSeq(text, StripFirst(text), StripLast(text))

\* The line numbers that go with Strip(text).
StripFrom(text, from) == SubSeq(from, StripFirst(text), StripLast(text))

-----------------------------------------------------------------------------
(* ai_agent.py 17-78: tailor_section *)

\* section_key.replace('_', ' ').title() (147)
HumanReadableName(section_key) ==
    CASE section_key = "CONTACT_INFO" -> "Contact Info"
      [] section_key = "PROFESSIONAL_SUMMARY" -> "Professional Summary"
      [] section_key = "PROFESSIONAL_EXPERIENCE" -> "Professional Experience"
      [] section_key = "CORE_SKILLS" -> "Core Skills"
      [] section_key = "KEY_ACHIEVEMENTS" -> "Key Achievements"
      [] section_key = "EDUCATION" -> "Education"
      [] section_key = "PROJECTS" -> "Projects"
      [] section_key = "AWARDS_AND_HONORS" -> "Awards And Honors"
      [] section_key = "CERTIFICATIONS" -> "Certifications"
      [] section_key = "VOLUNTEER_EXPERIENCE" -> "Volunteer Experience"
      [] section_key = "LANGUAGES" -> "Languages"
      [] section_key = "INTERESTS" -> "Interests"

\* What model.generate_content may do for a section: raise, or answer with
\* the section unchanged, a rewrite, an empty text, or a text that still
\* carries a bracketed placeholder.
GeminiOutcomes(section_content) ==
    {[raised |-> TRUE, text |-> <<>>]}
    \cup {[raised |-> FALSE, text |-> t] :
            t \in {section_content,
                   << <<"Rewritten", "for", "the", "job">> >>,
                   <<>>,
                   << <<"Grew", "sales", "[X%]">>, <<>> >>}}

IsPlaceholder(word) == word \in {"[X%]"}

\* re.sub(r'\[.*?\]', '', response.text)
RemovePlaceholders(text) ==
    [i \in 1..Len(text) |-> SelectSeq(text[i], LAMBDA word : ~IsPlaceholder(word))]

\* f"Error tailoring {section_name}: {e}"
TailoringErrorText(section_name) ==
    << <<"Error", "tailoring", section_name, ":", "quota exceeded">> >>

\* A guard that stops only the empty string, not blank text.
SectionIsNotEmptyString(section_content) == section_content # <<>>

\* Whether tailor_section reaches model.generate_content (21-25).
SectionIsSent(section_content) == Strip(section_content) # <<>>

\* An except clause that lets every exception through.
NoExceptClause(outcome) == FALSE

\* except Exception as e (76): whatever the try body raises is caught.
CaughtByExcept(outcome) == TRUE

\* A provider call that is made again after it has raised.
GenerateContentCallsWithRetry(section_name, outcome) ==
    IF outcome.raised THEN <<section_name, section_name>> ELSE <<section_name>>

\* model.generate_content is called once per tailor_section call (71), in no
\* loop.
GenerateContentCalls(section_name, outcome) == <<section_name>>

tailor_section(section_name, section_content, outcome) ==
    IF ~SectionIsSent(section_content) THEN <<>>
    ELSE IF outcome.raised THEN TailoringErrorText(section_name)
    ELSE Strip(RemovePlaceholders(outcome.text))

-----------------------------------------------------------------------------
(* ai_agent.py 80-155: tailor_resume *)

CvLines ==
    { <<>>,
      <<"John", "Doe">>,
      <<"-", "Built", "dashboards">>,
      <<"SUMMARY">>,
      <<"Professional", "Experience">>,
      <<"Experienced", "analyst">>,
      <<"Education">> }

\* cv_text.split('\n') is never empty: the empty CV is one blank line.
Documents == UNION {[1..n -> CvLines] : n \in 1..MaxLines}

\* current_section_name = "CONTACT_INFO" (111)
InitialSectionName == "CONTACT_INFO"

\* A segmenter that lists a section each time its heading is seen.
SectionOrderAppendAlways(order, key) == Append(order, key)

\* if key not in section_order: section_order.append(key) (127-128)
SectionOrderAfter(order, key) ==
    IF key \in SeqToSet(order) THEN order ELSE Append(order, key)

\* A segmenter that keeps the heading line as the first line of its section.
BufferKeepsHeading(line) == <<line>>

\* section_content_buffer = [] after a heading (131)
BufferAfterHeading(line) == <<>>

\* No function has been called directly.
NoCall == [function |-> "none"]

TailorLocalsInit ==
    /\ line_no = 0
    /\ section_calls = <<>>
    /\ last_call = NoCall
    /\ extracted_sections_raw = EmptyDict
    /\ section_order = <<InitialSectionName>>
    /\ current_section_name = InitialSectionName
    /\ section_content_buffer = <<>>
    /\ tailored_parts = EmptyDict
    /\ order_pos = 0
    /\ provider_calls = <<>>
    /\ buffer_from = <<>>
    /\ raw_from = EmptyDict
    /\ all_unchanged = TRUE

\* tailor_resume is entered with some CV (107-115).
TailorInit ==
    /\ tpc = "segment"
    /\ lines \in Documents
    /\ TailorLocalsInit

\* tailor_resume is not running.
TailorOff ==
    /\ tpc = "off"
    /\ lines = <<>>
    /\ TailorLocalsInit

\* One iteration of the loop over the lines (117-135).
SegmentLine ==
    /\ tpc = "segment"
    /\ line_no < Len(lines)
    /\ line_no' = line_no + 1
    /\ LET line == lines[line_no + 1]
       IN  IF IsHeading(line)
           THEN LET key == MatchedKey(line)
                IN  /\ extracted_sections_raw' =
                          DictSet(extracted_sections_raw, current_section_name,
                                  Strip(section_content_buffer))
                    /\ raw_from' = DictSet(raw_from, current_section_name,
                                           StripFrom(section_content_buffer, buffer_from))
                    /\ current_section_name' = key
                    /\ section_order' = SectionOrderAfter(section_order, key)
                    /\ section_content_buffer' = BufferAfterHeading(line)
                    /\ buffer_from' = [i \in 1..Len(section_content_buffer') |-> line_no + 1]
           ELSE /\ section_content_buffer' = Append(section_content_buffer, line)
                /\ buffer_from' = Append(buffer_from, line_no + 1)
                /\ UNCHANGED <<extracted_sections_raw, raw_from, current_section_name,
                               section_order>>
    /\ UNCHANGED <<tpc, lines, tailored_parts, order_pos, provider_calls,
                   section_calls, last_call, all_unchanged>>

\* Save the last section (137-139).
SaveLastSection ==
    /\ tpc = "segment"
    /\ line_no = Len(lines)
    /\ extracted_sections_raw' =
          DictSet(extracted_sections_raw, current_section_name,
                  Strip(section_content_buffer))
    /\ raw_from' = DictSet(raw_from, current_section_name,
                           StripFrom(section_content_buffer, buffer_from))
    /\ tpc' = "tailor"
    /\ UNCHANGED <<lines, line_no, section_order, current_section_name,
                   section_content_buffer, tailored_parts, order_pos,
                   provider_calls, section_calls, last_call, buffer_from,
                   all_unchanged>>

\* One iteration of the loop over section_order (144-153).  tailor_resume has
\* no try of its own: an exception that leaves tailor_section ends the run.
TailorNextSection ==
    /\ tpc = "tailor"
    /\ order_pos < Len(section_order)
    /\ LET section_key == section_order[order_pos + 1]
           raw_content == Strip(DictGet(extracted_sections_raw, section_key, <<>>))
       IN  IF section_key \in SECTIONS_TO_TAILOR /\ raw_content # <<>>
           THEN \E outcome \in GeminiOutcomes(raw_content) :
                   LET name == HumanReadableName(section_key)
                       sent == SectionIsSent(raw_content)
                       tailored_content == tailor_section(name, raw_content, outcome)
                   IN  /\ section_calls' =
                             Append(section_calls,
                                    [key |-> section_key, content |-> raw_content,
                                     raised |-> sent /\ outcome.raised])
                       /\ provider_calls' =
                             IF sent
                             THEN provider_calls \o GenerateContentCalls(name, outcome)
                             ELSE provider_calls
                       /\ IF sent /\ outcome.raised /\ ~CaughtByExcept(outcome)
                          THEN /\ tpc' = "raised"
                               /\ UNCHANGED <<tailored_parts, order_pos, all_unchanged>>
                          ELSE /\ tailored_parts' =
                                     DictSet(tailored_parts, section_key, tailored_content)
                               /\ order_pos' = order_pos + 1
                               /\ all_unchanged' =
                                     (all_unchanged /\ tailored_content = raw_content)
                               /\ UNCHANGED tpc
           ELSE /\ tailored_parts' = DictSet(tailored_parts, section_key, raw_content)
                /\ order_pos' = order_pos + 1
                /\ UNCHANGED <<tpc, provider_calls, section_calls, all_unchanged>>
    /\ UNCHANGED <<lines, line_no, extracted_sections_raw, section_order,
                   current_section_name, section_content_buffer, last_call,
                   buffer_from, raw_from>>

\* return {"tailored_sections": tailored_parts, "section_order": section_order}
ReturnTailored ==
    /\ tpc = "tailor"
    /\ order_pos = Len(section_order)
    /\ tpc' = "done"
    /\ UNCHANGED <<lines, line_no, extracted_sections_raw, section_order,
                   current_section_name, section_content_buffer, tailored_parts,
                   order_pos, provider_calls, section_calls, last_call,
                   buffer_from, raw_from, all_unchanged>>

tailor_resume_result ==
    [tailored_sections |-> tailored_parts, section_order |-> section_order]

-----------------------------------------------------------------------------
(* ai_agent.py 157-228: generate_interview_cheatsheet.  As a string, a text
   with no line is "" and a text of blank lines is whitespace. *)

\* return "Error: Resume or Job Description is missing." (162)
MissingInputText ==
    << <<"Error:", "Resume", "or", "Job", "Description", "is", "missing.">> >>

\* f"Error generating cheatsheet: {e}" (228)
CheatsheetErrorText == << <<"Error", "generating", "cheatsheet:", "quota exceeded">> >>

\* if not resume_text or not job_description (161)
InputMissing(resume_text, job_description) == resume_text = <<>> \/ job_description = <<>>

generate_interview_cheatsheet(resume_text, job_description, outcome) ==
    IF InputMissing(resume_text, job_description) THEN MissingInputText
    ELSE IF outcome.raised THEN CheatsheetErrorText
    ELSE Strip(outcome.text)

-----------------------------------------------------------------------------
(* utils.py 14-25: extract_text_from_docx *)

\* What the uploaded byte stream may be.
DocxStreams == {"docx", "not a zip", "truncated zip", "zip without content types",
                "spreadsheet package"}

\* Document(uploaded_file) of python-docx: the paragraphs of a Word file, or
\* the exception the library raises.  Which text zipfile puts in its error
\* for a stream that is no zip archive depends on the library version.
DocumentOutcomes(stream) ==
    CASE stream = "docx" ->
            {[raised |-> FALSE, type |-> "", message |-> "",
              paragraphs |-> << <<"John", "Doe">>, <<>>, <<"Education">> >>]}
      [] stream = "not a zip" ->
            {[raised |-> TRUE, type |-> "BadZipFile", message |-> m, paragraphs |-> <<>>] :
                m \in {"File is not a zip file", "Zipfile is not a zip file"}}
      [] stream = "truncated zip" ->
            {[raised |-> TRUE, type |-> "BadZipFile",
              message |-> "Bad magic number for central directory", paragraphs |-> <<>>]}
      [] stream = "zip without content types" ->
            {[raised |-> TRUE, type |-> "KeyError",
              message |-> "There is no item named '[Content_Types].xml' in the archive",
              paragraphs |-> <<>>]}
      [] stream = "spreadsheet package" ->
            {[raised |-> TRUE, type |-> "ValueError",
              message |-> "file is not a Word file", paragraphs |-> <<>>]}

\* A test that takes every library error for the invalid-file case.
AnyErrorIsInvalidFile(message) == TRUE

\* "Zipfile is not a zip file" in str(e) (23)
SaysNotAZipFile(message) == message = "Zipfile is not a zip file"

\* The call's outcome: the text, or the exception that leaves the function
\* (24: the ValueError; 25: raise e, the library's own exception).
extract_text_from_docx(outcome) ==
    IF ~outcome.raised
    THEN [raised |-> FALSE, type |-> "", message |-> "", text |-> outcome.paragraphs]
    ELSE IF SaysNotAZipFile(outcome.message)
         THEN [raised |-> TRUE, type |-> "ValueError",
               message |-> "Invalid or corrupted .docx file.", text |-> <<>>]
         ELSE [raised |-> TRUE, type |-> outcome.type, message |-> outcome.message,
               text |-> <<>>]

-----------------------------------------------------------------------------
(* utils.py 148-200: create_styled_docx.  The final markdown is a sequence of
   lines, a line a sequence of words; a header line begins with "## ". *)

\* The lines a final markdown may hold.
MarkdownLines ==
    { <<>>,
      <<"John", "Doe">>,
      <<"-", "Built", "dashboards">>,
      <<"##", "Summary">>,
      <<"##", "Core", "Skills">> }

\* line.startswith("## ") (165, 178)
IsHeaderLine(line) == Len(line) > 1 /\ line[1] = "##"

\* line[3:].strip().upper().replace(' ', '_') (181)
HeaderText(line) ==
    CASE Tail(line) = <<"Summary">> -> "SUMMARY"
      [] Tail(line) = <<"Core", "Skills">> -> "CORE_SKILLS"

\* final_markdown.strip().split('\n') (160): the split of "" is one blank line.
SplitStripped(final_markdown) ==
    IF Strip(final_markdown) = <<>> THEN << <<>> >> ELSE Strip(final_markdown)

\* The index of the first header line, 0 when there is none (163-167).
FirstHeaderIndex(md_lines) ==
    IF \E i \in 1..Len(md_lines) : IsHeaderLine(md_lines[i])
    THEN CHOOSE i \in 1..Len(md_lines) :
            /\ IsHeaderLine(md_lines[i])
            /\ \A j \in 1..(i - 1) : ~IsHeaderLine(md_lines[j])
    ELSE 0

\* "\n".join(lines) (169): of the one blank line it is "".
JoinLines(md_lines) == IF md_lines = << <<>> >> THEN <<>> ELSE md_lines

\* The CONTACT_INFO entry (168-175).
ContactInfoEntry(md_lines) ==
    LET first == FirstHeaderIndex(md_lines)
    IN  [key |-> "CONTACT_INFO",
         content |-> IF first = 0 THEN JoinLines(md_lines)
                     ELSE Strip(SubSeq(md_lines, 1, first - 1))]

\* The loop over the lines from the first header on (176-187), from line i,
\* with current_section_key ("" for None) and current_section_content.
RECURSIVE HeaderLoop(_, _, _, _)
HeaderLoop(md_lines, i, current_section_key, current_section_content) ==
    IF i > Len(md_lines)
    THEN IF current_section_key # ""
         THEN <<[key |-> current_section_key, content |-> Strip(current_section_content)]>>
         ELSE <<>>
    ELSE IF IsHeaderLine(md_lines[i])
         THEN (IF current_section_key # ""
               THEN <<[key |-> current_section_key,
                       content |-> Strip(current_section_content)]>>
               ELSE <<>>)
              \o HeaderLoop(md_lines, i + 1, HeaderText(md_lines[i]), <<>>)
         ELSE HeaderLoop(md_lines, i + 1, current_section_key,
                         Append(current_section_content, md_lines[i]))

\* sections_in_order as the rendering loop finds it (160-187).
SectionsInOrder(final_markdown) ==
    LET md_lines == SplitStripped(final_markdown)
        first == FirstHeaderIndex(md_lines)
    IN  <<ContactInfoEntry(md_lines)>>
        \o (IF first = 0 THEN <<>> ELSE HeaderLoop(md_lines, first, "", <<>>))

\* if not content (189): the content is the empty string.
ContentEmpty(content) == content = <<>>

\* What one section adds to the document: _add_contact_info adds nothing when
\* no line is left after stripping (98-99), _add_section_content a header and
\* the non-blank lines (121-146).
SectionElements(section) ==
    IF section.key = "CONTACT_INFO"
    THEN IF Strip(section.content) = <<>> THEN <<>>
         ELSE <<[kind |-> "contact", key |-> section.key, content |-> section.content]>>
    ELSE <<[kind |-> "section", key |-> section.key, content |-> section.content]>>

\* _add_section_divider (81-93)
Divider == [kind |-> "divider", key |-> "", content |-> <<>>]

\* if i < len(sections_in_order) - 1: if ... sections_in_order[i+1][1] (194-195)
DividerFollows(sections, i) ==
    i < Len(sections) /\ ~ContentEmpty(sections[i + 1].content)

\* The rendering loop (188-196), from entry i on.
RECURSIVE RenderFrom(_, _)
RenderFrom(sections, i) ==
    IF i > Len(sections) THEN <<>>
    ELSE IF ContentEmpty(sections[i].content) THEN RenderFrom(sections, i + 1)
    ELSE SectionElements(sections[i])
         \o (IF DividerFollows(sections, i) THEN <<Divider>> ELSE <<>>)
         \o RenderFrom(sections, i + 1)

\* The paragraphs of the document create_styled_docx saves.
create_styled_docx(final_markdown) == RenderFrom(SectionsInOrder(final_markdown), 1)

-----------------------------------------------------------------------------
(* Direct calls of the functions, made while tailor_resume is not running *)

\* The texts handed to a direct call: "", blank lines, CV lines.
CallTexts == {<<>>} \cup UNION {[1..n -> CvLines] : n \in 1..MaxCallLines}

JobDescriptions == {<<>>, << <<"We", "need", "SQL">> >>}

\* tailor_resume(cv_text, ...) is called (80, 107-115).  The run does not
\* depend on the calls made before it, so it is entered from the state in
\* which none was made.
CallTailorResume ==
    /\ tpc = "off"
    /\ last_call = NoCall
    /\ tpc' = "segment"
    /\ lines' \in Documents
    /\ last_call' = NoCall
    /\ UNCHANGED <<line_no, extracted_sections_raw, section_order,
                   current_section_name, section_content_buffer, tailored_parts,
                   order_pos, provider_calls, section_calls, buffer_from, raw_from,
                   all_unchanged>>

\* tailor_section(section_name, section_content, ...) is called (17-78).  The function keeps
\* nothing from one call to the next, so each call is made from the state in
\* which none was made.
CallTailorSection ==
    /\ tpc = "off"
    /\ last_call = NoCall
    /\ \E section_content \in CallTexts :
          \E outcome \in GeminiOutcomes(section_content) :
             LET sent == SectionIsSent(section_content)
             IN  last_call' =
                    [function |-> "tailor_section",
                     content |-> section_content,
                     configured |-> sent,
                     provider_called |-> sent,
                     provider_raised |-> sent /\ outcome.raised,
                     provider_text |-> IF sent /\ ~outcome.raised THEN outcome.text ELSE <<>>,
                     raised |-> sent /\ outcome.raised /\ ~CaughtByExcept(outcome),
                     result |-> tailor_section("Professional Summary", section_content,
                                               outcome)]
    /\ UNCHANGED <<tpc, lines, line_no, extracted_sections_raw, section_order,
                   current_section_name, section_content_buffer, tailored_parts,
                   order_pos, provider_calls, section_calls, buffer_from, raw_from,
                   all_unchanged>>

\* generate_interview_cheatsheet(resume_text, job_description, ...) is called.  The function keeps
\* nothing from one call to the next, so each call is made from the state in
\* which none was made.
CallGenerateInterviewCheatsheet ==
    /\ tpc = "off"
    /\ last_call = NoCall
    /\ \E resume_text \in CallTexts, job_description \in JobDescriptions :
          \E outcome \in GeminiOutcomes(resume_text) :
             LET missing == InputMissing(resume_text, job_description)
             IN  last_call' =
                    [function |-> "generate_interview_cheatsheet",
                     content |-> resume_text,
                     input_missing |-> missing,
                     provider_called |-> ~missing,
                     provider_raised |-> ~missing /\ outcome.raised,
                     raised |-> FALSE,
                     result |-> generate_interview_cheatsheet(resume_text, job_description,
                                                              outcome)]
    /\ UNCHANGED <<tpc, lines, line_no, extracted_sections_raw, section_order,
                   current_section_name, section_content_buffer, tailored_parts,
                   order_pos, provider_calls, section_calls, buffer_from, raw_from,
                   all_unchanged>>

\* extract_text_from_docx(uploaded_file) is called.  The function keeps
\* nothing from one call to the next, so each call is made from the state in
\* which none was made.
CallExtractTextFromDocx ==
    /\ tpc = "off"
    /\ last_call = NoCall
    /\ \E stream \in DocxStreams :
          \E outcome \in DocumentOutcomes(stream) :
             last_call' =
                [function |-> "extract_text_from_docx",
                 stream |-> stream,
                 outcome |-> extract_text_from_docx(outcome)]
    /\ UNCHANGED <<tpc, lines, line_no, extracted_sections_raw, section_order,
                   current_section_name, section_content_buffer, tailored_parts,
                   order_pos, provider_calls, section_calls, buffer_from, raw_from,
                   all_unchanged>>

\* The final markdowns handed to create_styled_docx.
FinalMarkdowns ==
    {<<>>} \cup UNION {[1..n -> MarkdownLines] : n \in 1..MaxMarkdownLines}

\* create_styled_docx(tailored_sections_dict, final_markdown, original_cv_text)
\* is called; only final_markdown is read.  The function keeps nothing from
\* one call to the next, so each call is made from the state in which none
\* was made.
CallCreateStyledDocx ==
    /\ tpc = "off"
    /\ last_call = NoCall
    /\ \E final_markdown \in FinalMarkdowns :
          last_call' =
             [function |-> "create_styled_docx",
              final_markdown |-> final_markdown,
              sections_in_order |-> SectionsInOrder(final_markdown),
              document |-> create_styled_docx(final_markdown)]
    /\ UNCHANGED <<tpc, lines, line_no, extracted_sections_raw, section_order,
                   current_section_name, section_content_buffer, tailored_parts,
                   order_pos, provider_calls, section_calls, buffer_from, raw_from,
                   all_unchanged>>

-----------------------------------------------------------------------------
(* Specifications *)

Init == SessionInit /\ TailorOff

Next ==
    \/ EditJobInput /\ reset_from' = {} /\ UNCHANGED tailorVars
    \/ ClickGenerate /\ reset_from' = {} /\ UNCHANGED tailorVars
    \/ ProviderAttempt /\ reset_from' = {} /\ UNCHANGED tailorVars
    \/ AllProvidersFailed /\ reset_from' = {} /\ UNCHANGED tailorVars
    \/ TitleReturn /\ reset_from' = {} /\ UNCHANGED tailorVars
    \/ ResumeReturn /\ reset_from' = {} /\ UNCHANGED tailorVars
    \/ EditSection /\ reset_from' = {} /\ UNCHANGED tailorVars
    \/ ClickFinalize /\ reset_from' = {} /\ UNCHANGED tailorVars
    \/ ClickCoverLetter /\ reset_from' = {} /\ UNCHANGED tailorVars
    \/ CoverLetterReturn /\ reset_from' = {} /\ UNCHANGED tailorVars
    \/ ClickCheatsheet /\ reset_from' = {} /\ UNCHANGED tailorVars
    \/ CheatsheetReturn /\ reset_from' = {} /\ UNCHANGED tailorVars
    \/ ClickReset /\ UNCHANGED tailorVars

\* The session of app.py.
Spec == Init /\ [][Next]_vars

TailorNext ==
    \/ SegmentLine /\ UNCHANGED appVars
    \/ SaveLastSection /\ UNCHANGED appVars
    \/ TailorNextSection /\ UNCHANGED appVars
    \/ ReturnTailored /\ UNCHANGED appVars

\* One run of ai_agent.tailor_resume over each CV of Documents.
InitTailor == SessionInit /\ TailorInit

SpecTailor == InitTailor /\ [][TailorNext]_vars

AgentNext ==
    \/ CallTailorResume /\ UNCHANGED appVars
    \/ CallTailorSection /\ UNCHANGED appVars
    \/ CallGenerateInterviewCheatsheet /\ UNCHANGED appVars
    \/ CallExtractTextFromDocx /\ UNCHANGED appVars
    \/ CallCreateStyledDocx /\ UNCHANGED appVars
    \/ SegmentLine /\ UNCHANGED appVars
    \/ SaveLastSection /\ UNCHANGED appVars
    \/ TailorNextSection /\ UNCHANGED appVars
    \/ ReturnTailored /\ UNCHANGED appVars

\* No function is running.
InitAgent == SessionInit /\ TailorOff

\* The functions of ai_agent.py and utils.py as a client calls them: directly,
\* or tailor_resume running to its return.
SpecAgent == InitAgent /\ [][AgentNext]_vars

-----------------------------------------------------------------------------
(* Claims about the failover orchestrator and the session (Spec) *)

\* The provider at position i of the registry rotated to start at start.
RotatedProvider(start, i) == ProviderRegistry[((start + i - 1) % 5) + 1]

NoCallAccepted == \A i \in 1..Len(calls) : ~calls[i].accepted

\* C1: when dispatch returns and no provider's response was accepted, the
\* returned text begins with "Error:" and the providers attempted are all
\* five of the registry, each once, in registry order rotated so that the
\* provider at start_index comes first.
C1_AllFailReturnsSentinel ==
    (pc = "ret" /\ NoCallAccepted) =>
        /\ StartsWithError(response)
        /\ Len(calls) = 5
        /\ \A i \in 1..5 : calls[i].provider = RotatedProvider(start_index, i)
        /\ \A i, j \in 1..5 : i # j => calls[i].provider # calls[j].provider
        /\ {calls[i].provider : i \in 1..5} = SeqToSet(ProviderRegistry)

\* dispatch has returned the sentinel after a rotation that wrapped around.
C1_Witness ==
    /\ pc = "ret" /\ purpose = "resume" /\ NoCallAccepted
    /\ start_index = 3
    /\ calls[1].provider = "fireworks" /\ calls[5].provider = "cohere"

\* C2: the providers a dispatch has attempted are always an initial stretch
\* of the rotated order, none but the last of them was accepted, and once
\* one is accepted dispatch has returned its response, which holds no
\* "Error:": nothing is called after the first accepted provider.
C2_StopsAtFirstAccepted ==
    /\ Len(calls) <= 5
    /\ \A i \in 1..Len(calls) : calls[i].provider = RotatedProvider(start_index, i)
    /\ \A i \in 1..(Len(calls) - 1) : ~calls[i].accepted
    /\ (Len(calls) > 0 /\ calls[Len(calls)].accepted) =>
          /\ pc = "ret"
          /\ ~ContainsError(response)
          /\ response \in ProviderTexts(purpose)
    /\ (pc = "ret" /\ ~NoCallAccepted) => calls[Len(calls)].accepted

\* dispatch has returned the third provider's response, the first two having
\* failed, with two providers left untried.
C2_Witness ==
    /\ pc = "ret" /\ Len(calls) = 3 /\ calls[3].accepted
    /\ start_index = 4 /\ calls[3].provider = "gemini"

SuccessfulGeneration ==
    /\ pc = "ret" /\ purpose = "resume"
    /\ "generated_data" \in DOMAIN session_state'

\* C3: provider_index starts at 0, is in 0..4 in every state, and every
\* successful resume generation advances it by exactly one modulo 5.
C3_ProviderIndexRotates ==
    /\ session_state["provider_index"] = 0
    /\ [](/\ "provider_index" \in DOMAIN session_state
          /\ session_state["provider_index"] \in 0..4)
    /\ [][SuccessfulGeneration =>
             session_state'["provider_index"] = (session_state["provider_index"] + 1) % 5]_vars

\* A successful generation has just wrapped the index around from 4 to 0.
C3_Witness ==
    /\ Has("generated_data") /\ session_state["provider_index"] = 0

\* The dict a slot refers to.
SlotData(key) == heap[session_state[key]]

TextKeys == {"official_job_title", "cover_letter", "cheatsheet"}

\* C4: no failure result is stored or offered: the editable sections never
\* hold a result with an error marker, and official_job_title, cover_letter
\* and cheatsheet never hold a text with the "Error:" prefix.
C4_NoFailureStored ==
    /\ Has("editable_sections") => DictGet(SlotData("editable_sections"), "error", "") = ""
    /\ \A key \in TextKeys : Has(key) => ~StartsWithError(session_state[key])

\* C5: generated_data, editable_sections and final_resume_data, when
\* present, hold a result with skills and experience and no truthy error.
C5_StoredDataNotErrored ==
    \A key \in DataKeys :
        Has(key) =>
            /\ session_state[key] \in DOMAIN heap
            /\ {"skills", "experience"} \subseteq DOMAIN SlotData(key)
            /\ DictGet(SlotData(key), "error", "") = ""

\* The result of a generation run is held by all three slots (stored, then
\* finalized).
C5_Witness ==
    /\ DataKeys \subseteq DOMAIN session_state
    /\ Finalized

\* C6: a generation run that returns without an error returns an experience
\* mapping whose keys are exactly the static employers, each with exactly 3
\* bullets.
C6_ExactEmployersThreeBullets ==
    (pc = "ret" /\ purpose = "resume") =>
        LET out == GenerateTailoredResumeData(response)
        IN  DictGet(out, "error", "") = "" =>
                /\ DOMAIN out["experience"] = StaticEmployers
                /\ \A c \in DOMAIN out["experience"] :
                      Len(DictGet(out["experience"][c], "bullets", <<>>)) = 3

StaticPosition(company) ==
    CHOOSE i \in 1..Len(RELEVANT_EXPERIENCE_STATIC) : RELEVANT_EXPERIENCE_STATIC[i] = company

\* companies are static employers, listed in the static order
InStaticOrder(companies) ==
    /\ \A i \in 1..Len(companies) : companies[i] \in StaticEmployers
    /\ \A i, j \in 1..Len(companies) :
          i < j => StaticPosition(companies[i]) < StaticPosition(companies[j])

CompaniesOfContent(content) ==
    LET parts == SelectSeq(content, LAMBDA part : part.kind = "company")
    IN  [i \in 1..Len(parts) |-> parts[i].company]

\* C7: the employers drawn in the review step and the employers of the
\* assembled resume text are static employers in static order: exactly the
\* static employers that are keys of the experience mapping.
C7_EmployersNeverInvented ==
    /\ Has("editable_sections") =>
          LET shown == ExperienceEditorCompanies(SlotData("editable_sections")["experience"])
          IN  /\ InStaticOrder(shown)
              /\ SeqToSet(shown) =
                    StaticEmployers \cap DOMAIN SlotData("editable_sections")["experience"]
    /\ purpose = "cheatsheet" =>
          /\ InStaticOrder(CompaniesOfContent(resume_content))
          /\ SeqToSet(CompaniesOfContent(resume_content)) =
                StaticEmployers \cap DOMAIN SlotData("final_resume_data")["experience"]

\* The resume text was assembled from a result that invents an employer and
\* lacks a static one.
C7_Witness ==
    /\ purpose = "cheatsheet"
    /\ "Acme Corp" \in DOMAIN SlotData("final_resume_data")["experience"]
    /\ "Itech Data Consulting" \notin DOMAIN SlotData("final_resume_data")["experience"]
    /\ Len(CompaniesOfContent(resume_content)) = 2

\* C8: right after "Start New Application" the session holds only the three
\* inputs, all empty, and provider_index at 0; no derived slot and no dict
\* is left.
C8_ResetClearsEverySlot ==
    reset_from # {} =>
        /\ DOMAIN session_state = InputKeys \cup {"provider_index"}
        /\ \A key \in InputKeys : session_state[key] = ""
        /\ session_state["provider_index"] = 0
        /\ heap = EmptyDict
        /\ pc = "idle"

\* The reset acted on a session that held every slot.
C8_Witness ==
    /\ DerivedKeys \subseteq reset_from
    /\ InputKeys \subseteq reset_from

-----------------------------------------------------------------------------
(* Claims about the segmentation of tailor_resume (SpecTailor) *)

\* For each line a CV may hold, the section key it is a heading of, "none"
\* when the segmenter does not recognise it as a heading.
HeadingKey ==
    [line \in CvLines |-> IF IsHeading(line) THEN MatchedKey(line) ELSE "none"]

\* The numbers of the lines of doc that the segmenter recognises as headings.
HeadingLines(doc) == {i \in 1..Len(doc) : HeadingKey[doc[i]] # "none"}

\* The number of the first heading line of doc, Len(doc) + 1 when it has none.
FirstHeading(doc) ==
    IF HeadingLines(doc) = {} THEN Len(doc) + 1
    ELSE CHOOSE i \in HeadingLines(doc) : \A j \in HeadingLines(doc) : i <= j

\* The number of the first heading line after line s, Len(doc) + 1 when
\* there is none.
HeadingAfter(doc, s) ==
    IF \E i \in HeadingLines(doc) : i > s
    THEN CHOOSE i \in HeadingLines(doc) :
            i > s /\ \A j \in HeadingLines(doc) : j > s => i <= j
    ELSE Len(doc) + 1

\* The section of doc that starts at line s (s = 0: the top of the document):
\* its key and the text up to the next heading, trimmed.
SectionAt(doc, s) ==
    [key |-> IF s = 0 THEN "CONTACT_INFO" ELSE HeadingKey[doc[s]],
     content |-> Strip(SubSeq(doc, s + 1, HeadingAfter(doc, s) - 1))]

\* The non-empty sections of doc, in the order of the document, from line s on.
RECURSIVE SectionsFrom(_, _)
SectionsFrom(doc, s) ==
    IF s > Len(doc) THEN <<>>
    ELSE IF s = 0 \/ HeadingKey[doc[s]] # "none"
         THEN (IF SectionAt(doc, s).content # <<>> THEN <<SectionAt(doc, s)>> ELSE <<>>)
              \o SectionsFrom(doc, s + 1)
         ELSE SectionsFrom(doc, s + 1)

\* The non-empty sections of the result, reassembled in section_order.
Reassembled ==
    SelectSeq([i \in 1..Len(section_order) |->
                  [key |-> section_order[i],
                   content |-> DictGet(tailored_parts, section_order[i], <<>>)]],
              LAMBDA section : section.content # <<>>)

\* C9: when every section came back from tailoring unchanged, the result
\* reassembled in section_order is the document's own sequence of non-empty
\* sections: same keys in the same order, same contents, a heading that
\* occurs twice included.
C9_RoundTrip ==
    (tpc = "done" /\ all_unchanged) => Reassembled = SectionsFrom(lines, 0)

\* C10: once the document is segmented, CONTACT_INFO holds exactly the lines
\* before the first heading (from the first to the last non-blank one, as
\* strip() leaves them), no other section holds a line from before the first
\* heading, no section holds a heading line, and a document without a heading
\* is CONTACT_INFO alone, with the whole trimmed document as its content.
C10_ContactInfoBeforeFirstHeading ==
    tpc \in {"tailor", "done"} =>
        LET headings == HeadingLines(lines)
            first == IF headings = {} THEN Len(lines) + 1
                     ELSE CHOOSE i \in headings : \A j \in headings : i <= j
            top == SubSeq(lines, 1, first - 1)
        IN  /\ "CONTACT_INFO" \in DOMAIN extracted_sections_raw
            /\ extracted_sections_raw["CONTACT_INFO"] = Strip(top)
            /\ raw_from["CONTACT_INFO"] = StripFrom(top, [i \in 1..(first - 1) |-> i])
            /\ \A key \in DOMAIN extracted_sections_raw :
                  /\ Len(raw_from[key]) = Len(extracted_sections_raw[key])
                  /\ \A j \in 1..Len(raw_from[key]) :
                        /\ extracted_sections_raw[key][j] = lines[raw_from[key][j]]
                        /\ raw_from[key][j] \notin headings
                        /\ key # "CONTACT_INFO" => raw_from[key][j] > first
            /\ headings = {} =>
                  /\ DOMAIN extracted_sections_raw = {"CONTACT_INFO"}
                  /\ extracted_sections_raw["CONTACT_INFO"] = Strip(lines)

\* A segmented document with text above its first heading and text under a
\* heading.
C10_Witness ==
    /\ tpc = "done"
    /\ FirstHeading(lines) \in 2..Len(lines)
    /\ extracted_sections_raw["CONTACT_INFO"] # <<>>
    /\ \E key \in DOMAIN extracted_sections_raw \ {"CONTACT_INFO"} :
          extracted_sections_raw[key] # <<>>

\* The section keys of doc from line s on that are not in seen, each at the
\* place of its first heading.
RECURSIVE FirstSeenKeys(_, _, _)
FirstSeenKeys(doc, s, seen) ==
    IF s > Len(doc) THEN <<>>
    ELSE IF HeadingKey[doc[s]] = "none" THEN FirstSeenKeys(doc, s + 1, seen)
         ELSE LET key == HeadingKey[doc[s]]
              IN  IF key \in seen THEN FirstSeenKeys(doc, s + 1, seen)
                  ELSE <<key>> \o FirstSeenKeys(doc, s + 1, seen \cup {key})

\* C11: section_order always starts with CONTACT_INFO and names no section
\* twice, and once the document is segmented it is CONTACT_INFO followed by
\* the other sections in the order in which their headings are first seen.
C11_SectionOrderFirstSeen ==
    /\ Len(section_order) >= 1
    /\ section_order[1] = "CONTACT_INFO"
    /\ \A i, j \in 1..Len(section_order) :
          section_order[i] = section_order[j] => i = j
    /\ tpc \in {"tailor", "done"} =>
          section_order = <<"CONTACT_INFO">> \o FirstSeenKeys(lines, 1, {})

\* A returned result for a document in which a heading recurs after another
\* section's heading.
C11_Witness ==
    /\ tpc = "done"
    /\ Len(section_order) = 3
    /\ \E i, j \in HeadingLines(lines) :
          i < j /\ MatchedKey(lines[i]) = MatchedKey(lines[j])

\* The names under which the four sections of the allow-list are sent.
AllowListNames ==
    {"Professional Summary", "Key Achievements", "Core Skills", "Professional Experience"}

AllowListKeys ==
    {"PROFESSIONAL_SUMMARY", "KEY_ACHIEVEMENTS", "CORE_SKILLS", "PROFESSIONAL_EXPERIENCE"}

\* C12: every call made to the AI is for a section of the allow-list, and the
\* content returned for any other section is the segmented raw content.
C12_OnlyAllowListSent ==
    /\ \A i \in 1..Len(provider_calls) : provider_calls[i] \in AllowListNames
    /\ \A key \in DOMAIN tailored_parts :
          key \notin AllowListKeys =>
              tailored_parts[key] = DictGet(extracted_sections_raw, key, <<>>)

\* A returned result with a tailored section, a non-empty EDUCATION section
\* and one call to the AI.
C12_Witness ==
    /\ tpc = "done"
    /\ Len(provider_calls) = 1
    /\ "EDUCATION" \in DOMAIN tailored_parts
    /\ tailored_parts["EDUCATION"] # <<>>
    /\ tailored_parts["PROFESSIONAL_SUMMARY"] # extracted_sections_raw["PROFESSIONAL_SUMMARY"]

\* C13: a provider error never ends the run.  No exception leaves
\* tailor_section; the section whose call raised gets the placeholder text;
\* the loop has an entry for every section it has passed, and the returned
\* result has one for every section of section_order.
C13_FailureNeverAborts ==
    /\ tpc # "raised"
    /\ \A i \in 1..Len(section_calls) :
          section_calls[i].raised =>
              /\ section_calls[i].key \in DOMAIN tailored_parts
              /\ tailored_parts[section_calls[i].key] =
                    TailoringErrorText(HumanReadableName(section_calls[i].key))
    /\ tpc \in {"tailor", "done"} =>
          DOMAIN tailored_parts = {section_order[i] : i \in 1..order_pos}
    /\ tpc = "done" => DOMAIN tailored_parts = SeqToSet(section_order)

\* A returned result whose first tailored section failed and whose second
\* was tailored after it.
C13_Witness ==
    /\ tpc = "done"
    /\ Len(section_calls) = 2
    /\ section_calls[1].raised
    /\ ~section_calls[2].raised
    /\ tailored_parts[section_calls[2].key] # <<>>

\* The sections the loop has passed that are sent to the AI: on the
\* allow-list and not empty.
EligiblePassed ==
    SelectSeq(SubSeq(section_order, 1, order_pos),
              LAMBDA key : /\ key \in AllowListKeys
                           /\ DictGet(extracted_sections_raw, key, <<>>) # <<>>)

\* C14: the calls made to the provider are one per eligible section passed,
\* in section_order: no section is sent twice and a failed call is not made
\* again.
C14_OneAttemptPerSection ==
    /\ provider_calls =
          [i \in 1..Len(EligiblePassed) |-> HumanReadableName(EligiblePassed[i])]
    /\ \A i, j \in 1..Len(provider_calls) :
          provider_calls[i] = provider_calls[j] => i = j

\* A returned result after two provider calls, the first of which failed.
C14_Witness ==
    /\ tpc = "done"
    /\ Len(provider_calls) = 2
    /\ section_calls[1].raised

-----------------------------------------------------------------------------
(* Claims about the functions called directly (SpecAgent) *)

\* The first word of a text, "" when its first line is blank or missing.
FirstWord(text) ==
    IF text = <<>> THEN "" ELSE IF text[1] = <<>> THEN "" ELSE text[1][1]

\* C15: every failure of generate_interview_cheatsheet (an input missing, or
\* the provider call raising) and of tailor_section (the provider call
\* raising) is a returned text whose first word is "Error:", and no exception
\* leaves the function.
C15_FailuresAreErrorStrings ==
    /\ (/\ last_call.function = "generate_interview_cheatsheet"
        /\ (last_call.input_missing \/ last_call.provider_raised))
          => (~last_call.raised /\ FirstWord(last_call.result) = "Error:")
    /\ (/\ last_call.function = "tailor_section"
        /\ last_call.provider_raised)
          => (~last_call.raised /\ FirstWord(last_call.result) = "Error:")

\* The text has the word "blocked" in it.
MentionsBlocked(text) ==
    \E i \in 1..Len(text) : \E j \in 1..Len(text[i]) : text[i][j] \in {"blocked", "Blocked"}

HasPlaceholder(text) ==
    \E i \in 1..Len(text) : \E j \in 1..Len(text[i]) : IsPlaceholder(text[i][j])

\* C16: when the provider call returns an empty text, tailor_section returns
\* a message with the word "blocked"; when it returns a non-empty text with
\* no placeholder, tailor_section returns that text (trimmed).
C16_BlockedResponseIsReported ==
    (/\ last_call.function = "tailor_section"
     /\ last_call.provider_called
     /\ ~last_call.provider_raised)
        => IF last_call.provider_text = <<>>
           THEN MentionsBlocked(last_call.result)
           ELSE ~HasPlaceholder(last_call.provider_text) =>
                    last_call.result = Strip(last_call.provider_text)

\* C17: tailor_section called with an empty or blank section returns the
\* empty text without configuring or calling the provider, and tailor_resume
\* calls tailor_section for no section whose content is empty.
C17_EmptySectionNeverSent ==
    /\ (/\ last_call.function = "tailor_section"
        /\ Strip(last_call.content) = <<>>)
          => /\ last_call.result = <<>>
             /\ ~last_call.configured
             /\ ~last_call.provider_called
             /\ ~last_call.raised
    /\ \A i \in 1..Len(section_calls) : Strip(section_calls[i].content) # <<>>

\* tailor_section was called with a section of blank lines only.
C17_Witness ==
    /\ last_call.function = "tailor_section"
    /\ last_call.content = << <<>>, <<>> >>
    /\ last_call.result = <<>>

\* C18: the value tailor_resume returns has every section of the CV as a key
\* of its own, CONTACT_INFO included.
C18_ResultKeyedBySection ==
    tpc = "done" =>
        \A i \in 1..Len(section_order) : section_order[i] \in DOMAIN tailor_resume_result

\* Messages that name the upload as an invalid DOCX file.
IdentifiesInvalidDocx(message) ==
    message \in {"Invalid or corrupted .docx file.", "Invalid DOCX file format"}

\* C19: for every stream that is not a Word file, extract_text_from_docx
\* ends with a ValueError whose message names an invalid DOCX file: it
\* returns no text and lets no other exception out.
C19_CorruptDocxIsValueError ==
    (/\ last_call.function = "extract_text_from_docx"
     /\ last_call.stream # "docx")
        => /\ last_call.outcome.raised
           /\ last_call.outcome.type = "ValueError"
           /\ IdentifiesInvalidDocx(last_call.outcome.message)

-----------------------------------------------------------------------------
(* Claims about the order of the workflow (Spec) *)

\* The page offers the resume download (141-142, 173).
ResumeDownloadOffered == Finalized /\ Has("official_job_title")

\* Finalize is pressed only while editable sections exist, and a cover letter
\* or a cheatsheet is generated or held only in a finalized session.
FinalizeAndDocumentsInOrder ==
    /\ [](purpose \in {"cover_letter", "cheatsheet"} => Finalized)
    /\ [](Has("cover_letter") \/ Has("cheatsheet") => Finalized)
    /\ [][(~Finalized /\ Finalized') =>
             (Has("editable_sections") /\ Has("editable_sections")')]_vars

\* C20 as stated: the resume download is offered only when, since the last
\* press of Generate or reset, a generation succeeded and Finalize was then
\* pressed; Finalize needs editable sections; the other documents need a
\* finalized session.
C20_DownloadAfterLastGenerate ==
    /\ [](ResumeDownloadOffered => since_press = "finalized")
    /\ FinalizeAndDocumentsInOrder

\* C20, amended: the same, counting only the presses of Generate made with a
\* job description, the only ones whose handler runs (60); a press with the
\* job description empty changes nothing and leaves the download offered.
C20_DownloadAfterLastGenerateThatRan ==
    /\ [](ResumeDownloadOffered => since_run = "finalized")
    /\ []((Finalized => Has("editable_sections") /\ Has("final_resume_data")))
    /\ FinalizeAndDocumentsInOrder

\* The download is offered after a press of Generate made with the job
\* description empty.
C20_Witness ==
    /\ ResumeDownloadOffered
    /\ since_run = "finalized"
    /\ since_press = "none"
    /\ Has("cover_letter")

-----------------------------------------------------------------------------
(* Claims about the session's slots and what each handler changes (Spec) *)

\* C21: in every state of the session, finalized being true implies that
\* final_resume_data, editable_sections and official_job_title are present,
\* and a cover_letter or cheatsheet being present implies finalized is true;
\* so while a Generate runs, and in the review step it leads to, the session
\* holds no cover letter or cheatsheet of an earlier job.
C21_DerivedSlotsConsistent ==
    /\ Finalized =>
          {"final_resume_data", "editable_sections", "official_job_title"}
              \subseteq DOMAIN session_state
    /\ (Has("cover_letter") \/ Has("cheatsheet")) => Finalized
    /\ purpose \in {"title", "resume"} =>
          ~Has("cover_letter") /\ ~Has("cheatsheet")

\* The documents of a second job: two generations have succeeded, the second
\* is finalized and holds a cover letter and a cheatsheet.
C21_Witness ==
    /\ Finalized
    /\ session_state["provider_index"] = 2
    /\ Has("cover_letter")
    /\ Has("cheatsheet")
    /\ Has("final_resume_data")

\* The slots a press of Generate is to delete, and the slots it is to keep.
SlotsClearedByGenerate ==
    {"generated_data", "editable_sections", "finalized", "final_resume_data",
     "cover_letter", "cheatsheet", "official_job_title"}

InputSlots == {"job_title_input", "company_name_input", "job_description_input"}

\* C22: a press of Generate with a non-empty job description deletes exactly
\* the seven derived slots before generating and leaves the three input slots
\* (and every other slot) as they were; a press with an empty job description
\* changes no slot, nor what a slot holds, and makes no provider call.
C22_GenerateClearsDerivedKeepsInputs ==
    [][ClickGenerate =>
          IF session_state["job_description_input"] # ""
          THEN /\ DOMAIN session_state' = DOMAIN session_state \ SlotsClearedByGenerate
               /\ InputSlots \subseteq DOMAIN session_state'
               /\ \A key \in DOMAIN session_state' :
                     session_state'[key] = session_state[key]
               /\ pc' = "call" /\ calls' = <<>>
          ELSE /\ session_state' = session_state
               /\ heap' = heap
               /\ pc' = "idle" /\ purpose' = "none" /\ calls' = <<>>]_vars

\* Generate has just been pressed with a job description in a session that
\* held the slots of an earlier successful generation (the provider index has
\* moved): the derived slots are gone, the inputs are kept and no provider
\* has been called yet.
C22_Witness ==
    /\ pc = "call" /\ purpose = "title" /\ calls = <<>>
    /\ session_state["provider_index"] = 1
    /\ session_state["job_title_input"] = "BI analyst"
    /\ session_state["company_name_input"] = "Acme"
    /\ DOMAIN session_state \cap SlotsClearedByGenerate = {}

\* The step stores the result of a resume generation that succeeded (78-82).
ResumeGenerationSucceeds ==
    /\ pc = "ret" /\ purpose = "resume"
    /\ ~Has("generated_data") /\ Has("generated_data")'

\* The step is a press of "Start New Application" (190-194).
StartNewApplication == ClickReset

ProviderIndexChanges ==
    session_state'["provider_index"] # session_state["provider_index"]

\* A cover letter or cheatsheet request starts at the session's index.
DocumentRequestsStartAtSessionIndex ==
    [](purpose \in {"cover_letter", "cheatsheet"} =>
          start_index = session_state["provider_index"])

\* C23 as stated: the provider start index changes only on a successful
\* resume generation (a failed one, a cover-letter or cheatsheet generation,
\* an edit and a Finalize leave it unchanged), and cover letter and
\* cheatsheet requests start at the index the session holds.
C23_IndexChangesOnlyOnSuccess ==
    /\ [][ProviderIndexChanges => ResumeGenerationSucceeds]_vars
    /\ DocumentRequestsStartAtSessionIndex

\* C23, amended: the same, except that "Start New Application" deletes the
\* index with every other slot and the rerun sets it to 0 again.
C23_IndexChangesOnlyOnSuccessOrReset ==
    /\ [][ProviderIndexChanges =>
             \/ ResumeGenerationSucceeds
             \/ StartNewApplication /\ session_state'["provider_index"] = 0]_vars
    /\ DocumentRequestsStartAtSessionIndex

\* A cheatsheet request made after a cover letter was generated starts at
\* the index the one successful resume generation left.
C23_Witness ==
    /\ pc = "call" /\ purpose = "cheatsheet"
    /\ Has("cover_letter")
    /\ session_state["provider_index"] = 1
    /\ start_index = 1

\* The dict the final_resume_data slot refers to.
FinalResumeData == heap[session_state["final_resume_data"]]

\* C24: once the resume is finalized its content is frozen: as long as the
\* session stays finalized (no new Generate, no Start New Application), no
\* script run and no user interaction changes the skills, roles or bullets
\* held in final_resume_data; the bullets are re-parsed from the text area
\* only while the resume is not finalized.
C24_FinalizedContentFrozen ==
    [][(Finalized /\ Has("final_resume_data") /\ Finalized') =>
          /\ Has("final_resume_data")'
          /\ FinalResumeData' = FinalResumeData]_vars

\* A finalized, edited resume after a later script run: the technical skills
\* were edited in review, the resume was finalized and a cover letter was
\* then generated.
C24_Witness ==
    /\ Finalized /\ Has("final_resume_data")
    /\ edits = 1
    /\ Has("cover_letter")
    /\ FinalResumeData["skills"]["technical"] = "Excel, Tableau"

\* The dicts the generated_data and editable_sections slots refer to.
GeneratedData == heap[session_state["generated_data"]]

EditableSections == heap[session_state["editable_sections"]]

\* C25: user edits in the review step affect only the editable copy: an edit
\* leaves what the generated_data slot holds exactly as it was, the content
\* the generation run returned, while editable_sections (and final_resume_data
\* after Finalize) hold the edited content.
C25_EditsLeaveGeneratedData ==
    /\ [][EditSection =>
             /\ Has("generated_data")'
             /\ GeneratedData' = GeneratedData]_vars
    /\ [](Finalized /\ Has("final_resume_data") =>
             heap[session_state["final_resume_data"]] = EditableSections)

-----------------------------------------------------------------------------
(* Claims about what the segmenter keeps (SpecTailor) *)

\* The sections whose saved content holds line number i of the document.
SectionsHolding(i) ==
    {key \in DOMAIN raw_from : \E j \in 1..Len(raw_from[key]) : raw_from[key][j] = i}

\* How many times the saved content of section key holds line number i.
TimesHeld(key, i) ==
    Cardinality({j \in 1..Len(raw_from[key]) : raw_from[key][j] = i})

\* C26: the segmenter neither loses nor duplicates content: once the document
\* is segmented, every line that is not recognised as a heading and is not
\* blank (blank lines at the ends of a section are trimmed) is held by exactly
\* one section of the map, once, also when a heading occurs more than once.
C26_NoLineLostOrDuplicated ==
    tpc \in {"tailor", "done"} =>
        \A i \in 1..Len(lines) :
            (HeadingKey[lines[i]] = "none" /\ lines[i] # <<>>) =>
                /\ Cardinality(SectionsHolding(i)) = 1
                /\ \A key \in SectionsHolding(i) :
                      /\ TimesHeld(key, i) = 1
                      /\ key \in DOMAIN tailored_parts \/ tpc = "tailor"

-----------------------------------------------------------------------------
(* Claims about the rendering of the final markdown (SpecAgent) *)

\* The numbers of the header lines of the markdown md.
MarkdownHeaders(md) == {i \in 1..Len(md) : Len(md[i]) > 1 /\ md[i][1] = "##"}

\* The number of the first header line after line s, Len(md) + 1 when there
\* is none.
MarkdownHeaderAfter(md, s) ==
    IF \E i \in MarkdownHeaders(md) : i > s
    THEN CHOOSE i \in MarkdownHeaders(md) :
            i > s /\ \A j \in MarkdownHeaders(md) : j > s => i <= j
    ELSE Len(md) + 1

\* The content of the section of md that starts at line s (s = 0: the top).
MarkdownContent(md, s) == Strip(SubSeq(md, s + 1, MarkdownHeaderAfter(md, s) - 1))

\* The contents of the non-empty sections of md, in the order of the
\* markdown, from line s on.
RECURSIVE NonEmptySections(_, _)
NonEmptySections(md, s) ==
    IF s > Len(md) THEN <<>>
    ELSE IF s = 0 \/ s \in MarkdownHeaders(md)
         THEN (IF MarkdownContent(md, s) # <<>> THEN <<MarkdownContent(md, s)>> ELSE <<>>)
              \o NonEmptySections(md, s + 1)
         ELSE NonEmptySections(md, s + 1)

\* C27: create_styled_docx renders the sections of the final markdown in the
\* order it meets them, omits every section whose content is empty, and puts
\* exactly one divider between every two sections rendered one after the
\* other, none before the first or after the last, also when empty sections
\* lie between two non-empty ones.
C27_OneDividerBetweenRendered ==
    last_call.function = "create_styled_docx" =>
        LET document == last_call.document
            expected == NonEmptySections(last_call.final_markdown, 0)
        IN  /\ Len(document) = IF expected = <<>> THEN 0 ELSE 2 * Len(expected) - 1
            /\ \A i \in 1..Len(document) :
                  IF i % 2 = 1
                  THEN /\ document[i].kind # "divider"
                       /\ document[i].content = expected[(i + 1) \div 2]
                  ELSE document[i].kind = "divider"

=============================================================================
